---------------------------- MODULE Spec2Model ----------------------------
(***************************************************************************)
(* Billing schedule and invoice generation engine of the invoice-enterprise *)
(* backend: the schedule calculator (schedule_service.py), invoice          *)
(* numbering (security.py), the duplicate guard and the four generation     *)
(* modes (invoice_engine.py), over a transactional invoice store.           *)
(*                                                                          *)
(* A calendar date is the number of days since 2023-01-01 (a Sunday), so    *)
(* timedelta arithmetic is integer arithmetic and date.weekday() is         *)
(* (day number + 6) modulo 7, as it is of Python's ordinals.                *)
(***************************************************************************)
EXTENDS Integers, Sequences, FiniteSets, TLC

VARIABLES
    customers,      \* customer id -> the customer with its contract and schedule
    invoices,       \* the committed rows of the invoices table
    pending,        \* session -> the rows it has flushed and not committed
    cursor,         \* customer id -> committed last_run_date / next_run_date
    run,            \* session -> the run it executes
    next_id,        \* the next invoice id
    runs_started,   \* how many runs were started
    status_updates, \* how many status updates were made
    call_args,      \* schedule calculator: the arguments of the call under study
    call_result     \* schedule calculator: the last call made and what it returned

engine_vars ==
    <<customers, invoices, pending, cursor, run, next_id, runs_started, status_updates>>

sched_vars == <<call_args, call_result>>

vars == <<engine_vars, sched_vars>>

---------------------------------------------------------------------------
(* datetime.date: the proleptic Gregorian calendar *)

IsLeap(y) == (y % 4 = 0 /\ y % 100 # 0) \/ (y % 400 = 0)

DaysInYear(y) == IF IsLeap(y) THEN 366 ELSE 365

DaysInMonth(y, m) ==
    CASE m = 2 -> IF IsLeap(y) THEN 29 ELSE 28
      [] m \in {4, 6, 9, 11} -> 30
      [] OTHER -> 31

RECURSIVE DaysBeforeYear(_)
DaysBeforeYear(y) ==
    IF y <= 2023 THEN 0 ELSE DaysBeforeYear(y - 1) + DaysInYear(y - 1)

RECURSIVE DaysBeforeMonth(_, _)
DaysBeforeMonth(y, m) ==
    IF m <= 1 THEN 0 ELSE DaysBeforeMonth(y, m - 1) + DaysInMonth(y, m - 1)

\* date(y, m, d) for a day that exists
MkDate(y, m, d) == DaysBeforeYear(y) + DaysBeforeMonth(y, m) + (d - 1)

RECURSIVE SplitYear(_, _)
SplitYear(n, y) ==
    IF n < DaysInYear(y) THEN [year |-> y, rest |-> n]
    ELSE SplitYear(n - DaysInYear(y), y + 1)

RECURSIVE SplitMonth(_, _, _)
SplitMonth(n, y, m) ==
    IF n < DaysInMonth(y, m) THEN [month |-> m, day |-> n + 1]
    ELSE SplitMonth(n - DaysInMonth(y, m), y, m + 1)

YearOf(n) == SplitYear(n, 2023).year
MonthOf(n) == SplitMonth(SplitYear(n, 2023).rest, YearOf(n), 1).month
DayOf(n) == SplitMonth(SplitYear(n, 2023).rest, YearOf(n), 1).day

\* date.weekday(): Monday is 0
Weekday(n) == (n + 6) % 7

\* date.replace(day=k) raises ValueError when the month has no day k
ReplaceDayRaises(n, k) == k < 1 \/ k > DaysInMonth(YearOf(n), MonthOf(n))
ReplaceDay(n, k) == MkDate(YearOf(n), MonthOf(n), k)

\* the first day of the month after n's month (both branches of the code's
\* from_date.month == 12 test)
FirstOfNextMonth(n) ==
    IF MonthOf(n) = 12 THEN MkDate(YearOf(n) + 1, 1, 1)
    ELSE MkDate(YearOf(n), MonthOf(n) + 1, 1)

---------------------------------------------------------------------------
(* ScheduleService *)

Frequencies == {"weekly", "biweekly", "monthly"}

\* the period of a calculator that lets the period end on run_date itself
compute_billing_period_to_run_date(run_date, frequency) ==
    CASE frequency = "weekly" ->
           [period_start |-> run_date - 6, period_end |-> run_date]
      [] frequency = "biweekly" ->
           [period_start |-> run_date - 13, period_end |-> run_date]
      [] frequency = "monthly" ->
           [period_start |-> ReplaceDay(ReplaceDay(run_date, 1) - 1, 1),
            period_end |-> ReplaceDay(run_date, 1) - 1]

\* a calculator whose weekly and biweekly windows reach one day further back
compute_billing_period_longer_window(run_date, frequency) ==
    LET period_end == run_date - 1 IN
    CASE frequency = "weekly" ->
           [period_start |-> period_end - 7, period_end |-> period_end]
      [] frequency = "biweekly" ->
           [period_start |-> period_end - 14, period_end |-> period_end]
      [] frequency = "monthly" ->
           [period_start |-> ReplaceDay(ReplaceDay(run_date, 1) - 1, 1),
            period_end |-> ReplaceDay(run_date, 1) - 1]

compute_billing_period(run_date, frequency) ==
    LET period_end == run_date - 1 IN
    CASE frequency = "weekly" ->
           [period_start |-> period_end - 6, period_end |-> period_end]
      [] frequency = "biweekly" ->
           [period_start |-> period_end - 13, period_end |-> period_end]
      [] frequency = "monthly" ->
           LET first_of_current_month == ReplaceDay(run_date, 1)
               month_end == first_of_current_month - 1
           IN  [period_start |-> ReplaceDay(month_end, 1), period_end |-> month_end]

BiweeklyPhaseNoModulo(run_date, schedule) == TRUE

BiweeklyPhase(run_date, schedule) ==
    LET days_since_anchor == run_date - schedule.anchor_date
    IN  days_since_anchor % 14 = 0

EnabledGateIgnored(schedule) == TRUE

EnabledGate(schedule) == schedule.is_enabled

should_invoice_today(run_date, frequency, schedule) ==
    IF ~EnabledGate(schedule) THEN FALSE
    ELSE CASE frequency = "weekly" ->
                Weekday(run_date) = schedule.billing_weekday
           [] frequency = "biweekly" ->
                IF Weekday(run_date) # schedule.billing_weekday THEN FALSE
                ELSE BiweeklyPhase(run_date, schedule)
           [] frequency = "monthly" ->
                DayOf(run_date) = schedule.billing_day

\* the number of days the forward search looks at
ScanDays == 60

NoDate == 0 - 1

\* a search that starts on the day after from_date
RECURSIVE ScanForDueFromNextDay(_, _, _, _)
ScanForDueFromNextDay(check_date, left, frequency, schedule) ==
    IF left = 0 THEN NoDate
    ELSE IF should_invoice_today(check_date + 1, frequency, schedule)
         THEN check_date + 1
    ELSE ScanForDueFromNextDay(check_date + 1, left - 1, frequency, schedule)

\* for _ in range(60): the first check_date that is due, or NoDate
RECURSIVE ScanForDue(_, _, _, _)
ScanForDue(check_date, left, frequency, schedule) ==
    IF left = 0 THEN NoDate
    ELSE IF should_invoice_today(check_date, frequency, schedule) THEN check_date
    ELSE ScanForDue(check_date + 1, left - 1, frequency, schedule)

DaysUntilBilling(from_date, schedule) ==
    LET days_until_billing == (schedule.billing_weekday - Weekday(from_date)) % 7
    IN  IF days_until_billing = 0 THEN 7 ELSE days_until_billing

\* an estimate that clamps into from_date's own month
FallbackDateClampThisMonth(from_date, frequency, schedule) ==
    CASE frequency = "weekly" ->
           from_date + DaysUntilBilling(from_date, schedule)
      [] frequency = "biweekly" ->
           LET next_date == from_date + DaysUntilBilling(from_date, schedule)
               days_since_anchor == next_date - schedule.anchor_date
           IN  IF days_since_anchor % 14 # 0 THEN next_date + 7 ELSE next_date
      [] frequency = "monthly" ->
           IF DayOf(from_date) < schedule.billing_day
           THEN IF ~ReplaceDayRaises(from_date, schedule.billing_day)
                THEN ReplaceDay(from_date, schedule.billing_day)
                ELSE FirstOfNextMonth(from_date) - 1
           ELSE ReplaceDay(FirstOfNextMonth(from_date), schedule.billing_day)

\* an estimate that takes this month's billing day even when it has passed
FallbackDateNoPassedTest(from_date, frequency, schedule) ==
    CASE frequency = "weekly" ->
           from_date + DaysUntilBilling(from_date, schedule)
      [] frequency = "biweekly" ->
           LET next_date == from_date + DaysUntilBilling(from_date, schedule)
               days_since_anchor == next_date - schedule.anchor_date
           IN  IF days_since_anchor % 14 # 0 THEN next_date + 7 ELSE next_date
      [] frequency = "monthly" ->
           IF ~ReplaceDayRaises(from_date, schedule.billing_day)
           THEN ReplaceDay(from_date, schedule.billing_day)
           ELSE ReplaceDay(FirstOfNextMonth(from_date), schedule.billing_day)

\* the closed-form estimate after a search that found nothing
FallbackDate(from_date, frequency, schedule) ==
    CASE frequency = "weekly" ->
           from_date + DaysUntilBilling(from_date, schedule)
      [] frequency = "biweekly" ->
           LET next_date == from_date + DaysUntilBilling(from_date, schedule)
               days_since_anchor == next_date - schedule.anchor_date
           IN  IF days_since_anchor % 14 # 0 THEN next_date + 7 ELSE next_date
      [] frequency = "monthly" ->
           IF DayOf(from_date) < schedule.billing_day
              /\ ~ReplaceDayRaises(from_date, schedule.billing_day)
           THEN ReplaceDay(from_date, schedule.billing_day)
           ELSE LET next_month == FirstOfNextMonth(from_date) IN
                IF ~ReplaceDayRaises(next_month, schedule.billing_day)
                THEN ReplaceDay(next_month, schedule.billing_day)
                ELSE FirstOfNextMonth(next_month) - 1

compute_next_invoice_date(from_date, frequency, schedule) ==
    LET found == ScanForDue(from_date, ScanDays, frequency, schedule)
    IN  IF found # NoDate THEN found
        ELSE FallbackDate(from_date, frequency, schedule)

\* ScheduleConfig's column defaults: Friday, 2026-01-02, the 1st
DefaultBillingWeekday == 4
DefaultAnchorDate == 1097
DefaultBillingDay == 1

---------------------------------------------------------------------------
(* The store: customers with their contract and schedule, and invoices *)

Customers == {"c1", "c2"}

\* the order in which the batch's customer query returns its rows
CustomerOrder == <<"c1", "c2">>

\* customer ids a single-customer request may carry: the first customer, and
\* an id of no customer; the second customer is reached by the batch
RequestCustomerIds == {"c1", "nobody"}

Contract(prefix, frequency) ==
    [present |-> TRUE, is_active |-> TRUE, invoice_prefix |-> prefix,
     frequency |-> frequency]

\* a contract row whose is_active column is false
InactiveContract(prefix, frequency) ==
    [Contract(prefix, frequency) EXCEPT !.is_active = FALSE]

\* customer.contract is None
NoContract ==
    [present |-> FALSE, is_active |-> FALSE, invoice_prefix |-> "",
     frequency |-> "monthly"]

Schedule(is_enabled, auto_send_email, billing_weekday, billing_day) ==
    [present |-> TRUE, is_enabled |-> is_enabled,
     auto_send_email |-> auto_send_email, billing_weekday |-> billing_weekday,
     anchor_date |-> DefaultAnchorDate, billing_day |-> billing_day]

\* customer.schedule is None
NoSchedule ==
    [present |-> FALSE, is_enabled |-> FALSE, auto_send_email |-> FALSE,
     billing_weekday |-> DefaultBillingWeekday, anchor_date |-> DefaultAnchorDate,
     billing_day |-> DefaultBillingDay]

Customer(contract, schedule) ==
    [is_active |-> TRUE, contract |-> contract, schedule |-> schedule]

\* the customer tables the runs are studied on:
\*  - a monthly customer billed on the 1st that opted in to emails, and a
\*    weekly customer billed on Sundays that did not;
\*  - two monthly customers whose names give the same invoice prefix, the
\*    second with its schedule disabled;
\*  - a customer without a contract and a customer without a schedule.
CustomerTables ==
    { [c1 |-> Customer(Contract("ACME", "monthly"), Schedule(TRUE, TRUE, 4, 1)),
       c2 |-> Customer(Contract("GTI", "weekly"), Schedule(TRUE, FALSE, 6, 1))],
      [c1 |-> Customer(Contract("ACME", "monthly"), Schedule(TRUE, TRUE, 4, 1)),
       c2 |-> Customer(Contract("ACME", "monthly"), Schedule(FALSE, FALSE, 4, 1))],
      [c1 |-> Customer(NoContract, Schedule(TRUE, FALSE, 4, 1)),
       c2 |-> Customer(Contract("GTI", "monthly"), NoSchedule)] }

\* a customer whose contract is switched off and a customer without one
ContractTables ==
    { [c1 |-> Customer(InactiveContract("ACME", "monthly"), Schedule(TRUE, TRUE, 4, 1)),
       c2 |-> Customer(NoContract, Schedule(TRUE, FALSE, 6, 1))] }

\* run dates: 2026-03-01 (a Sunday, the 1st) and 2026-03-02
RunDates == {MkDate(2026, 3, 1), MkDate(2026, 3, 2)}

NoPeriod == [period_start |-> NoDate, period_end |-> NoDate]

\* the period bounds a wizard or manual-override request may carry:
\* February 2026
ExplicitPeriods ==
    {[period_start |-> MkDate(2026, 2, 1), period_end |-> MkDate(2026, 2, 28)]}

\* how many runs are started, and how many status updates are made
MaxRuns == 2
MaxStatusUpdates == 1

\* the sessions that may be open at once
Runs == 1 .. 2

---------------------------------------------------------------------------
(* Invoice numbering *)

RECURSIVE ZeroPad(_, _)
ZeroPad(str, width) == IF Len(str) >= width THEN str ELSE ZeroPad("0" \o str, width)

\* date.strftime("%Y%m%d")
DatePart(date) ==
    ZeroPad(ToString(YearOf(date)), 4) \o ZeroPad(ToString(MonthOf(date)), 2)
        \o ZeroPad(ToString(DayOf(date)), 2)

\* f"{prefix}-{date_part}-{sequence:03d}"
generate_invoice_number(prefix, date, sequence) ==
    prefix \o "-" \o DatePart(date) \o "-" \o ZeroPad(ToString(sequence), 3)

---------------------------------------------------------------------------
(* A run's view of the invoices table, and the queries of generate_invoice *)

\* the rows a run's session sees: the committed ones and its own flushed ones
VisibleInvoices(r) == invoices \cup pending[r]

\* select count(Invoice.id) where customer_id and invoice_date match, plus one
get_next_invoice_sequence(r, customer_id, invoice_date) ==
    Cardinality({i \in VisibleInvoices(r) :
                    i.customer_id = customer_id /\ i.invoice_date = invoice_date}) + 1

\* a guard that also asks for the same invoice date
check_duplicate_invoice_same_date(r, customer_id, period) ==
    {i \in VisibleInvoices(r) :
        /\ i.customer_id = customer_id
        /\ i.period_start = period.period_start
        /\ i.period_end = period.period_end
        /\ i.invoice_date = run[r].run_date
        /\ i.status # "cancelled"}

\* a guard that counts cancelled invoices too
check_duplicate_invoice_any_status(r, customer_id, period) ==
    {i \in VisibleInvoices(r) :
        /\ i.customer_id = customer_id
        /\ i.period_start = period.period_start
        /\ i.period_end = period.period_end}

\* the rows of the duplicate guard's query: the same customer, the same
\* period bounds, not cancelled
check_duplicate_invoice(r, customer_id, period) ==
    {i \in VisibleInvoices(r) :
        /\ i.customer_id = customer_id
        /\ i.period_start = period.period_start
        /\ i.period_end = period.period_end
        /\ i.status # "cancelled"}

\* a table without the unique constraint
UniqueNumberNotEnforced(r, invoice_number) == FALSE

\* uq_invoices_invoice_number: the insert fails when a row the session can
\* see carries the number
UniqueNumberViolated(r, invoice_number) ==
    \E i \in VisibleInvoices(r) : i.invoice_number = invoice_number

\* the insert waits while another session holds an uncommitted row with the
\* number
InsertBlocked(r, invoice_number) ==
    \E o \in Runs \ {r} : \E i \in pending[o] : i.invoice_number = invoice_number

---------------------------------------------------------------------------
(* One run of a generation mode: its request, its ExecutionLog, its place   *)
(* in the code                                                              *)

\* ExecutionLog(...) as constructed; completed_at and error_trace unset
NewLog ==
    [customers_loaded |-> 0, schedule_matches |-> 0, pdfs_generated |-> 0,
     emails_sent |-> 0, failures |-> 0, error_trace |-> "", completed_at |-> FALSE]

\* no execution_logs row of the run is committed
NoStoredLog == [NewLog EXCEPT !.error_trace = "(no row)"]

IdleRun ==
    [pc |-> "idle", mode |-> "none", run_date |-> NoDate,
     send_email |-> FALSE, send_email_read |-> FALSE,
     ignore_schedule |-> FALSE, allow_duplicate |-> FALSE, period |-> NoPeriod,
     todo |-> <<>>, cur_period |-> NoPeriod, sequence |-> 0, invoice |-> 0,
     dirty_sent |-> {}, dirty_cursor |-> {}, generated |-> {},
     log |-> NewLog, stored_log |-> NoStoredLog, failures |-> <<>>]

IsBatch(rec) == rec.mode \in {"scheduled", "generate_all"}

\* ExecutionMode.GENERATE_ALL if request.ignore_schedule else SCHEDULED
BatchMode(ignore_schedule) == IF ignore_schedule THEN "generate_all" ELSE "scheduled"

\* a batch that also skips a customer whose cached next_run_date lies after
\* the run date
SkipsCustomerByCursor(c, rec) ==
    \/ ~customers[c].contract.present
    \/ ~customers[c].schedule.present
    \/ /\ ~rec.ignore_schedule
       /\ \/ ~should_invoice_today(rec.run_date, customers[c].contract.frequency,
                                   customers[c].schedule)
          \/ cursor[c].next_run_date > rec.run_date

\* the batch loop's three "continue" tests
SkipsCustomer(c, rec) ==
    \/ ~customers[c].contract.present
    \/ ~customers[c].schedule.present
    \/ /\ ~rec.ignore_schedule
       /\ ~should_invoice_today(rec.run_date, customers[c].contract.frequency,
                                customers[c].schedule)

RECURSIVE SkipToMatch(_, _)
SkipToMatch(todo, rec) ==
    IF todo = <<>> THEN <<>>
    ELSE IF SkipsCustomer(Head(todo), rec) THEN SkipToMatch(Tail(todo), rec)
    ELSE todo

\* the batch loop moves to the next customer that is not skipped, or ends
NextCustomer(rec, rest) ==
    LET todo == SkipToMatch(rest, rec)
        clear == [rec EXCEPT !.cur_period = NoPeriod, !.sequence = 0, !.invoice = 0]
    IN  IF todo = <<>> THEN [clear EXCEPT !.todo = <<>>, !.pc = "finish"]
        ELSE [clear EXCEPT !.todo = todo, !.pc = "check",
                           !.log.schedule_matches = @ + 1]

\* a failure entry of the run's failures list
Failure(c, error) == [customer_id |-> c, error |-> error]

\* "Email" in f.get("error", "")
IsEmailFailure(f) == f.error = "Email failed"

\* the single-customer modes' except block: error_trace, failures = 1,
\* completed_at
RunLevelException(rec, error) ==
    [rec EXCEPT !.pc = "raised", !.log.error_trace = error, !.log.failures = 1,
                !.log.completed_at = TRUE]

\* run_scheduled's outer except block: error_trace and completed_at
BatchRunLevelException(rec, error) ==
    [rec EXCEPT !.pc = "raised", !.log.error_trace = error, !.log.completed_at = TRUE]

\* the batch's "except Exception" around one customer: a failure entry, the
\* counter, and on with the loop
CustomerFailed(rec, error) ==
    NextCustomer([rec EXCEPT !.failures = Append(@, Failure(Head(rec.todo), error)),
                             !.log.failures = @ + 1],
                 Tail(rec.todo))

\* an exception out of generate_invoice
GenerateFailed(rec, error) ==
    IF IsBatch(rec) THEN CustomerFailed(rec, error) ELSE RunLevelException(rec, error)

\* an except around send_invoice_email that counts the failure in
\* exec_log.failures in the batch as well
EmailFailedCounted(rec) ==
    IF IsBatch(rec)
    THEN [rec EXCEPT !.failures = Append(@, Failure(Head(rec.todo), "Email failed")),
                     !.log.failures = @ + 1]
    ELSE [rec EXCEPT !.failures = Append(@, Failure(Head(rec.todo), "Email failed")),
                     !.log.failures = 1]

\* the except around send_invoice_email: a failure entry in every mode, and
\* exec_log.failures = 1 in the single-customer modes only
EmailFailed(rec) ==
    IF IsBatch(rec)
    THEN [rec EXCEPT !.failures = Append(@, Failure(Head(rec.todo), "Email failed"))]
    ELSE [rec EXCEPT !.failures = Append(@, Failure(Head(rec.todo), "Email failed")),
                     !.log.failures = 1]

\* the values request.send_email may have where the run first reads it: the
\* request is fixed when the run starts, and the field is not read before
\* the first invoice is persisted
SendEmailValues(rec) == IF rec.send_email_read THEN {rec.send_email} ELSE BOOLEAN

\* a batch that looks at request.send_email only
ShouldSendRequestOnly(rec, send_email) == send_email

\* request.send_email and (request.ignore_schedule or schedule.auto_send_email);
\* the single-customer modes test request.send_email alone
ShouldSend(rec, send_email) ==
    IF IsBatch(rec)
    THEN send_email
         /\ (rec.ignore_schedule \/ customers[Head(rec.todo)].schedule.auto_send_email)
    ELSE send_email

\* after the customer's invoice (and email): the batch writes the schedule
\* cursor and loops; a single-customer mode goes on to its commit
CustomerDone(rec) ==
    IF IsBatch(rec)
    THEN NextCustomer([rec EXCEPT !.dirty_cursor = @ \cup {Head(rec.todo)}],
                      Tail(rec.todo))
    ELSE [rec EXCEPT !.pc = "finish"]

---------------------------------------------------------------------------
(* db.commit() and the rollback of a failed flush *)

MarkSent(i, ids) == IF i.id \in ids THEN [i EXCEPT !.status = "sent"] ELSE i

CommittedInvoices(r, rec) == {MarkSent(i, rec.dirty_sent) : i \in invoices \cup pending[r]}

CommittedCursor(rec) ==
    [c \in Customers |->
        IF c \in rec.dirty_cursor
        THEN [last_run_date |-> rec.run_date,
              next_run_date |->
                 compute_next_invoice_date(rec.run_date + 1,
                                           customers[c].contract.frequency,
                                           customers[c].schedule)]
        ELSE cursor[c]]

\* the run goes on as rec after committing its session
Commit(r, rec) ==
    /\ run' = [run EXCEPT ![r] = [rec EXCEPT !.dirty_sent = {}, !.dirty_cursor = {},
                                             !.stored_log = rec.log]]
    /\ invoices' = CommittedInvoices(r, rec)
    /\ pending' = [pending EXCEPT ![r] = {}]
    /\ cursor' = CommittedCursor(rec)

\* the run goes on as rec, its session's changes still uncommitted
NoCommit(r, rec) ==
    /\ run' = [run EXCEPT ![r] = rec]
    /\ UNCHANGED <<invoices, pending, cursor>>

\* a failed flush rolls the session's transaction back; every later
\* statement and commit of the session raises, so the run ends with the
\* exception and what it had not committed is gone
Rollback(r, rec) ==
    /\ run' = [run EXCEPT ![r] = [rec EXCEPT !.dirty_sent = {}, !.dirty_cursor = {}]]
    /\ pending' = [pending EXCEPT ![r] = {}]
    /\ UNCHANGED <<invoices, cursor>>

\* a generate_invoice that adds the row before it renders, so that a failed
\* render leaves the row in the session
AfterGenerateFailedRowKept(r, rec, error) ==
    IF error = "PDF render failed"
    THEN /\ run' = [run EXCEPT ![r] = GenerateFailed(rec, error)]
         /\ pending' = [pending EXCEPT ![r] = @ \cup
                {[id |-> next_id, customer_id |-> Head(rec.todo),
                  invoice_number |-> "", sequence |-> rec.sequence,
                  invoice_date |-> rec.run_date,
                  period_start |-> rec.cur_period.period_start,
                  period_end |-> rec.cur_period.period_end,
                  status |-> "generated", generation_mode |-> rec.mode]}]
         /\ UNCHANGED <<invoices, cursor>>
    ELSE IF IsBatch(rec) THEN NoCommit(r, GenerateFailed(rec, error))
    ELSE Commit(r, GenerateFailed(rec, error))

\* an exception out of generate_invoice with the session intact: the batch
\* loops on; a single-customer mode commits its log in the except block
AfterGenerateFailed(r, rec, error) ==
    IF IsBatch(rec) THEN NoCommit(r, GenerateFailed(rec, error))
    ELSE Commit(r, GenerateFailed(rec, error))

---------------------------------------------------------------------------
(* The four generation modes *)

\* select(Customer).where(id == customer_id).where(is_active)
CustomerFound(c) == c \in Customers /\ customers[c].is_active

\* a single-customer run past its customer query
SingleRun(mode, c, run_date, allow_duplicate, period) ==
    [IdleRun EXCEPT !.pc = "check", !.mode = mode, !.run_date = run_date,
                    !.allow_duplicate = allow_duplicate,
                    !.period = period, !.todo = <<c>>,
                    !.log.customers_loaded = 1, !.log.schedule_matches = 1]

\* a single-customer run whose customer query found nothing
NotFoundRun(mode) ==
    RunLevelException([IdleRun EXCEPT !.mode = mode], "Customer not found")

\* a new run takes the first session that is not in use
IsFreeSlot(r) ==
    /\ run[r].pc = "idle"
    /\ \A o \in Runs : o < r => run[o].pc # "idle"

\* run_quick_mode up to the call of generate_invoice
StartQuick(r) ==
    /\ IsFreeSlot(r)
    /\ runs_started < MaxRuns
    /\ runs_started' = runs_started + 1
    /\ \E c \in RequestCustomerIds, d \in RunDates :
          IF CustomerFound(c)
          THEN NoCommit(r, SingleRun("quick", c, d, FALSE, NoPeriod))
          ELSE Commit(r, NotFoundRun("quick"))
    /\ UNCHANGED <<customers, next_id, status_updates, sched_vars>>

\* run_wizard_mode up to the call of generate_invoice
StartWizard(r) ==
    /\ IsFreeSlot(r)
    /\ runs_started < MaxRuns
    /\ runs_started' = runs_started + 1
    /\ \E c \in RequestCustomerIds, d \in RunDates,
          allow_duplicate \in BOOLEAN, p \in ExplicitPeriods :
          IF CustomerFound(c)
          THEN NoCommit(r, SingleRun("wizard", c, d, allow_duplicate, p))
          ELSE Commit(r, NotFoundRun("wizard"))
    /\ UNCHANGED <<customers, next_id, status_updates, sched_vars>>

\* run_manual_date_override up to the call of generate_invoice; the call's
\* argument customer.contract.default_hours raises when there is no contract
StartManual(r) ==
    /\ IsFreeSlot(r)
    /\ runs_started < MaxRuns
    /\ runs_started' = runs_started + 1
    /\ \E c \in RequestCustomerIds, d \in RunDates, p \in ExplicitPeriods :
          IF ~CustomerFound(c)
          THEN Commit(r, NotFoundRun("manual"))
          ELSE IF ~customers[c].contract.present
          THEN Commit(r, RunLevelException(SingleRun("manual", c, d, FALSE, p),
                                           "no contract"))
          ELSE NoCommit(r, SingleRun("manual", c, d, FALSE, p))
    /\ UNCHANGED <<customers, next_id, status_updates, sched_vars>>

\* the rows of the batch's customer query, in its order
RECURSIVE LoadedCustomers(_)
LoadedCustomers(order) ==
    IF order = <<>> THEN <<>>
    ELSE IF customers[Head(order)].is_active
         THEN <<Head(order)>> \o LoadedCustomers(Tail(order))
         ELSE LoadedCustomers(Tail(order))

\* run_scheduled up to the first customer that is not skipped
StartScheduled(r) ==
    /\ IsFreeSlot(r)
    /\ runs_started < MaxRuns
    /\ runs_started' = runs_started + 1
    /\ \E d \in RunDates, ignore_schedule \in BOOLEAN :
          LET loaded == LoadedCustomers(CustomerOrder)
              rec == [IdleRun EXCEPT !.mode = BatchMode(ignore_schedule),
                                     !.run_date = d,
                                     !.ignore_schedule = ignore_schedule,
                                     !.log.customers_loaded = Len(loaded)]
          IN  NoCommit(r, NextCustomer(rec, loaded))
    /\ UNCHANGED <<customers, next_id, status_updates, sched_vars>>

\* generate_invoice: the period bounds passed in, or else the period computed
\* from the run date and the contract's frequency
ResolvedPeriod(rec) ==
    IF rec.period # NoPeriod THEN rec.period
    ELSE compute_billing_period(rec.run_date,
                                customers[Head(rec.todo)].contract.frequency)

\* the guard's scalar_one_or_none: one row is the conflict, more rows raise
DuplicateError(rows) ==
    IF Cardinality(rows) > 1 THEN "MultipleResultsFound"
    ELSE "Invoice already exists for this period"

\* generate_invoice up to the duplicate guard: the contract test, the
\* period, and the guard's query unless allow_duplicate
CheckDuplicate(r) ==
    LET rec == run[r]
        c == Head(rec.todo)
        contract == customers[c].contract
        period == ResolvedPeriod(rec)
        existing == check_duplicate_invoice(r, c, period)
    IN  /\ rec.pc = "check"
        /\ IF ~contract.present
           THEN AfterGenerateFailed(r, rec, "no contract")
           ELSE IF ~rec.allow_duplicate /\ existing # {}
           THEN AfterGenerateFailed(r, [rec EXCEPT !.cur_period = period],
                                    DuplicateError(existing))
           ELSE NoCommit(r, [rec EXCEPT !.pc = "sequence", !.cur_period = period])
        /\ UNCHANGED <<customers, next_id, runs_started, status_updates, sched_vars>>

\* generate_invoice: the sequence query
GetSequence(r) ==
    LET rec == run[r] IN
    /\ rec.pc = "sequence"
    /\ NoCommit(r, [rec EXCEPT
            !.pc = "persist",
            !.sequence = get_next_invoice_sequence(r, Head(rec.todo), rec.run_date)])
    /\ UNCHANGED <<customers, next_id, runs_started, status_updates, sched_vars>>

\* the Invoice row generate_invoice adds
NewInvoice(rec, id, invoice_number) ==
    [id |-> id, customer_id |-> Head(rec.todo), invoice_number |-> invoice_number,
     sequence |-> rec.sequence, invoice_date |-> rec.run_date,
     period_start |-> rec.cur_period.period_start,
     period_end |-> rec.cur_period.period_end,
     status |-> "generated", generation_mode |-> rec.mode]

\* generate_invoice from the invoice number to the flush: the PDF is
\* rendered, the row is added and flushed; then the caller counts it and
\* decides on the email
RenderAndPersist(r) ==
    LET rec == run[r]
        c == Head(rec.todo)
        invoice_number == generate_invoice_number(customers[c].contract.invoice_prefix,
                                                  rec.run_date, rec.sequence)
        counted == [rec EXCEPT !.log.pdfs_generated = @ + 1, !.invoice = next_id,
                               !.generated = @ \cup {next_id},
                               !.send_email_read = TRUE]
    IN  /\ rec.pc = "persist"
        /\ \/ \* the renderer raises
              /\ AfterGenerateFailed(r, rec, "PDF render failed")
              /\ UNCHANGED next_id
           \/ \* the flush violates the unique constraint
              /\ ~InsertBlocked(r, invoice_number)
              /\ UniqueNumberViolated(r, invoice_number)
              /\ Rollback(r, IF IsBatch(rec)
                              THEN BatchRunLevelException(rec, "IntegrityError")
                              ELSE RunLevelException(rec, "IntegrityError"))
              /\ UNCHANGED next_id
           \/ \* the row is flushed
              /\ ~InsertBlocked(r, invoice_number)
              /\ ~UniqueNumberViolated(r, invoice_number)
              /\ \E send_email \in SendEmailValues(rec) :
                    LET read == [counted EXCEPT !.send_email = send_email] IN
                    run' = [run EXCEPT ![r] =
                               IF ShouldSend(rec, send_email)
                               THEN [read EXCEPT !.pc = "email"]
                               ELSE CustomerDone(read)]
              /\ pending' = [pending EXCEPT ![r] =
                                @ \cup {NewInvoice(rec, next_id, invoice_number)}]
              /\ next_id' = next_id + 1
              /\ UNCHANGED <<invoices, cursor>>
        /\ UNCHANGED <<customers, runs_started, status_updates, sched_vars>>

\* email_service.send_invoice_email and the caller's try/except around it:
\* a sent email commits the session, then the invoice is marked sent
SendEmail(r) ==
    LET rec == run[r]
        sent == [rec EXCEPT !.log.emails_sent = @ + 1, !.dirty_sent = {rec.invoice},
                            !.dirty_cursor = {}, !.stored_log = rec.log]
    IN  /\ rec.pc = "email"
        /\ \/ \* sent: send_invoice_email commits, then invoice.status = SENT
              /\ run' = [run EXCEPT ![r] = CustomerDone(sent)]
              /\ invoices' = CommittedInvoices(r, rec)
              /\ pending' = [pending EXCEPT ![r] = {}]
              /\ cursor' = CommittedCursor(rec)
           \/ \* send_invoice_email raises
              NoCommit(r, CustomerDone(EmailFailed(rec)))
        /\ UNCHANGED <<customers, next_id, runs_started, status_updates, sched_vars>>

\* the end of the run's try block: completed_at, commit, and the summary
FinishRun(r) ==
    LET rec == run[r] IN
    /\ rec.pc = "finish"
    /\ Commit(r, [rec EXCEPT !.pc = "returned", !.log.completed_at = TRUE])
    /\ UNCHANGED <<customers, next_id, runs_started, status_updates, sched_vars>>

\* the caller has the summary (or the exception); the session is closed
Return(r) ==
    /\ run[r].pc \in {"returned", "raised"}
    /\ run' = [run EXCEPT ![r] = IdleRun]
    /\ pending' = [pending EXCEPT ![r] = {}]
    /\ UNCHANGED <<customers, invoices, cursor, next_id, runs_started, status_updates, sched_vars>>

\* PATCH /invoices/{id}/status; the updates are studied between runs
NewStatuses == {"cancelled", "generated"}

update_invoice_status(id, new_status) ==
    /\ status_updates < MaxStatusUpdates
    /\ \A r \in Runs : run[r].pc = "idle"
    /\ status_updates' = status_updates + 1
    /\ \E i \in invoices :
          /\ i.id = id
          /\ i.status # new_status
          /\ invoices' = (invoices \ {i}) \cup {[i EXCEPT !.status = new_status]}
    /\ UNCHANGED <<customers, run, pending, cursor, next_id, runs_started, sched_vars>>

UpdateInvoiceStatus ==
    \E i \in invoices, new_status \in NewStatuses :
        update_invoice_status(i.id, new_status)

\* POST /invoices/{id}/resend-email when the email is sent: the invoice is
\* marked sent whatever its status was. A failed send answers 500 and
\* leaves the row as it is.
resend_invoice_email(id) ==
    /\ status_updates < MaxStatusUpdates
    /\ \A r \in Runs : run[r].pc = "idle"
    /\ status_updates' = status_updates + 1
    /\ \E i \in invoices :
          /\ i.id = id
          /\ i.status # "sent"
          /\ invoices' = (invoices \ {i}) \cup {[i EXCEPT !.status = "sent"]}
    /\ UNCHANGED <<customers, run, pending, cursor, next_id, runs_started, sched_vars>>

ResendInvoiceEmail ==
    \E i \in invoices : resend_invoice_email(i.id)

---------------------------------------------------------------------------
(* The engine: runs of the four modes, interleaved at their database        *)
(* statements, and invoice status updates                                   *)

NoCall == [op |-> "none"]

NoCursor == [last_run_date |-> NoDate, next_run_date |-> NoDate]

Init ==
    /\ customers \in CustomerTables
    /\ invoices = {}
    /\ pending = [r \in Runs |-> {}]
    /\ run = [r \in Runs |-> IdleRun]
    /\ cursor = [c \in Customers |-> NoCursor]
    /\ next_id = 1
    /\ runs_started = 0
    /\ status_updates = 0
    /\ call_args = NoCall
    /\ call_result = NoCall

Next ==
    \/ \E r \in Runs : StartQuick(r)
    \/ \E r \in Runs : StartWizard(r)
    \/ \E r \in Runs : StartManual(r)
    \/ \E r \in Runs : StartScheduled(r)
    \/ \E r \in Runs : CheckDuplicate(r)
    \/ \E r \in Runs : GetSequence(r)
    \/ \E r \in Runs : RenderAndPersist(r)
    \/ \E r \in Runs : SendEmail(r)
    \/ \E r \in Runs : FinishRun(r)
    \/ \E r \in Runs : Return(r)
    \/ UpdateInvoiceStatus
    \/ ResendInvoiceEmail

Spec == Init /\ [][Next]_vars

---------------------------------------------------------------------------
(* The schedule calculator called on every date, frequency and schedule of  *)
(* a bounded window.                                                        *)

\* two windows of run dates: one from 2024-01-15 over the leap February of
\* 2024, one from 2026-01-01 over the first half of 2026
LeapWindowStart == 379
LeapWindowDays == 60
WindowStart == 1096
WindowDays == 190

\* anchor dates: a fortnight starting at the schema's default 2026-01-02
AnchorStart == 1097
AnchorDays == 14

CallDates ==
    (LeapWindowStart .. LeapWindowStart + LeapWindowDays)
        \cup (WindowStart .. WindowStart + WindowDays)

\* the fields a frequency does not read keep the schema's defaults
\* (billing_weekday 4, anchor_date 2026-01-02, billing_day 1)
CallSchedules(frequency) ==
    CASE frequency = "weekly" ->
           [is_enabled : BOOLEAN, billing_weekday : 0 .. 6,
            anchor_date : {DefaultAnchorDate}, billing_day : {DefaultBillingDay}]
      [] frequency = "biweekly" ->
           [is_enabled : BOOLEAN, billing_weekday : 0 .. 6,
            anchor_date : AnchorStart .. AnchorStart + AnchorDays - 1,
            billing_day : {DefaultBillingDay}]
      [] frequency = "monthly" ->
           [is_enabled : BOOLEAN, billing_weekday : {DefaultBillingWeekday},
            anchor_date : {DefaultAnchorDate}, billing_day : 1 .. 31]

SchedInit ==
    /\ \E d \in CallDates, f \in Frequencies :
         \E s \in CallSchedules(f) :
            call_args = [date |-> d, frequency |-> f, schedule |-> s]
    /\ call_result = NoCall
    /\ customers \in {c \in CustomerTables : c.c2.contract.frequency = "weekly"}
    /\ invoices = {}
    /\ pending = [r \in Runs |-> {}]
    /\ run = [r \in Runs |-> IdleRun]
    /\ cursor = [c \in Customers |-> NoCursor]
    /\ next_id = 1
    /\ runs_started = 0
    /\ status_updates = 0

CallComputeBillingPeriod ==
    /\ call_result = NoCall
    /\ call_result' =
         [op |-> "compute_billing_period",
          period |-> compute_billing_period(call_args.date, call_args.frequency)]
    /\ UNCHANGED <<call_args, engine_vars>>

CallShouldInvoiceToday ==
    /\ call_result = NoCall
    /\ call_result' =
         [op |-> "should_invoice_today",
          due |-> should_invoice_today(call_args.date, call_args.frequency,
                                       call_args.schedule)]
    /\ UNCHANGED <<call_args, engine_vars>>

CallComputeNextInvoiceDate ==
    /\ call_result = NoCall
    /\ call_result' =
         [op |-> "compute_next_invoice_date",
          scanned |-> ScanForDue(call_args.date, ScanDays, call_args.frequency,
                                 call_args.schedule) # NoDate,
          next |-> compute_next_invoice_date(call_args.date, call_args.frequency,
                                             call_args.schedule)]
    /\ UNCHANGED <<call_args, engine_vars>>

SchedNext ==
    \/ CallComputeBillingPeriod
    \/ CallShouldInvoiceToday
    \/ CallComputeNextInvoiceDate

SpecSched == SchedInit /\ [][SchedNext]_vars

---------------------------------------------------------------------------
(* Claims about the schedule calculator, checked under SpecSched *)

PrecedingMonth(p, run_date) ==
    /\ DayOf(p.period_start) = 1
    /\ YearOf(p.period_end) = YearOf(p.period_start)
    /\ MonthOf(p.period_end) = MonthOf(p.period_start)
    /\ DayOf(p.period_end) = DaysInMonth(YearOf(p.period_start), MonthOf(p.period_start))
    /\ IF MonthOf(run_date) = 1
       THEN MonthOf(p.period_start) = 12 /\ YearOf(p.period_start) = YearOf(run_date) - 1
       ELSE MonthOf(p.period_start) = MonthOf(run_date) - 1
            /\ YearOf(p.period_start) = YearOf(run_date)

\* C4: compute_billing_period returns start <= end < run_date; the inclusive
\* length is 7 days for weekly, 14 for biweekly, and for monthly the period is
\* the first through the last day of the month before run_date's month.
C4_PeriodBeforeRunDate ==
    call_result.op = "compute_billing_period" =>
        LET p == call_result.period
            len == p.period_end - p.period_start + 1
        IN  /\ p.period_start <= p.period_end
            /\ p.period_end < call_args.date
            /\ call_args.frequency = "weekly" => len = 7
            /\ call_args.frequency = "biweekly" => len = 14
            /\ call_args.frequency = "monthly" => PrecedingMonth(p, call_args.date)

\* a monthly period computed on 2026-03-01: February 2026, 28 days
C4_Witness ==
    /\ call_result.op = "compute_billing_period"
    /\ call_args.frequency = "monthly"
    /\ call_args.date = MkDate(2026, 3, 1)
    /\ call_result.period.period_start = MkDate(2026, 2, 1)
    /\ call_result.period.period_end = MkDate(2026, 2, 28)

\* a schedule that is due on some date: enabled, and for biweekly anchored on
\* its own billing weekday
HasDueDates(frequency, schedule) ==
    /\ schedule.is_enabled
    /\ frequency = "biweekly" =>
           Weekday(schedule.anchor_date) = schedule.billing_weekday

\* C5 as claimed: for every schedule, the date compute_next_invoice_date
\* returns is a date on which should_invoice_today is true.
C5_NextDateIsDue_AnySchedule ==
    call_result.op = "compute_next_invoice_date" =>
        should_invoice_today(call_result.next, call_args.frequency,
                             call_args.schedule)

\* C5 amended: for every schedule that is enabled and, for biweekly, whose
\* anchor_date falls on billing_weekday, the date compute_next_invoice_date
\* returns is a date on which should_invoice_today is true.
C5_NextDateIsDue ==
    (/\ call_result.op = "compute_next_invoice_date"
     /\ HasDueDates(call_args.frequency, call_args.schedule)) =>
        should_invoice_today(call_result.next, call_args.frequency,
                             call_args.schedule)

\* the closed-form path deciding for an enabled schedule: billing_day 31
\* from 2026-04-01
C5_Witness ==
    /\ call_result.op = "compute_next_invoice_date"
    /\ HasDueDates(call_args.frequency, call_args.schedule)
    /\ ~call_result.scanned
    /\ call_args.date = MkDate(2026, 4, 1)
    /\ call_result.next = MkDate(2026, 5, 31)

\* C6: compute_next_invoice_date returns a date, and it is >= from_date, on
\* the scan path and on the closed-form path.
C6_NextDateNotBefore ==
    call_result.op = "compute_next_invoice_date" =>
        /\ call_result.next \in Int
        /\ call_result.next # NoDate
        /\ call_result.next >= call_args.date

\* the closed-form path taken for a disabled monthly schedule whose billing
\* day has passed
C6_Witness ==
    /\ call_result.op = "compute_next_invoice_date"
    /\ ~call_result.scanned
    /\ call_args.frequency = "monthly"
    /\ DayOf(call_args.date) > call_args.schedule.billing_day
    /\ call_result.next > call_args.date

\* C7: a biweekly schedule that is due on d is due on d + 14 and not due on
\* d + 7.
C7_BiweeklyEvery14Days ==
    (/\ call_result.op = "should_invoice_today"
     /\ call_args.frequency = "biweekly"
     /\ call_result.due) =>
        /\ should_invoice_today(call_args.date + 14, "biweekly", call_args.schedule)
        /\ ~should_invoice_today(call_args.date + 7, "biweekly", call_args.schedule)

\* the default schedule (anchor 2026-01-02, a Friday) found due on 2026-01-16
C7_Witness ==
    /\ call_result.op = "should_invoice_today"
    /\ call_args.frequency = "biweekly"
    /\ call_args.schedule.anchor_date = MkDate(2026, 1, 2)
    /\ call_args.schedule.billing_weekday = 4
    /\ call_args.date = MkDate(2026, 1, 16)
    /\ call_result.due

---------------------------------------------------------------------------
(* Claims about the generation runs, checked under Spec *)

\* every invoice row: the committed ones and the flushed ones of open sessions
AllRows == invoices \cup UNION {pending[r] : r \in Runs}

SamePeriod(i, j) ==
    /\ i.customer_id = j.customer_id
    /\ i.period_start = j.period_start
    /\ i.period_end = j.period_end

\* the committed non-cancelled invoices of the customer and period of the
\* run's generate_invoice call
ExistingForPeriod(rec) ==
    {i \in invoices :
        /\ i.customer_id = Head(rec.todo)
        /\ i.period_start = ResolvedPeriod(rec).period_start
        /\ i.period_end = ResolvedPeriod(rec).period_end
        /\ i.status # "cancelled"}

\* the run's step from pc leaves the call of generate_invoice with an error
Rejected(r) ==
    IF IsBatch(run[r])
    THEN /\ Len(run'[r].failures) = Len(run[r].failures) + 1
         /\ run'[r].failures[Len(run'[r].failures)].customer_id = Head(run[r].todo)
         /\ ~IsEmailFailure(run'[r].failures[Len(run'[r].failures)])
    ELSE /\ run'[r].pc = "raised"
         /\ run'[r].log.error_trace # ""

\* the guard's step of a call whose period is that of an existing
\* non-cancelled invoice of the customer
C1_GuardStep(r) ==
    (/\ run[r].pc = "check"
     /\ run'[r] # run[r]
     /\ customers[Head(run[r].todo)].contract.present
     /\ ExistingForPeriod(run[r]) # {}) =>
        IF run[r].allow_duplicate
        THEN /\ run'[r].pc = "sequence"
             /\ run'[r].failures = run[r].failures
        ELSE /\ Rejected(r)
             /\ invoices' = invoices
             /\ pending' = pending

\* the insert of a call with allow_duplicate in a series of sequential runs
\* for one customer: no other run is open, and none has committed a row
\* since the call read its sequence
C1_PersistStep(r) ==
    (/\ run[r].pc = "persist"
     /\ run'[r] # run[r]
     /\ run[r].allow_duplicate
     /\ \A o \in Runs \ {r} : run[o].pc = "idle"
     /\ run[r].sequence =
           get_next_invoice_sequence(r, Head(run[r].todo), run[r].run_date)
     /\ \A i \in AllRows : i.customer_id = Head(run[r].todo)) =>
        \/ \E i \in pending'[r] \ pending[r] :
              /\ i.customer_id = Head(run[r].todo)
              /\ i.period_start = run[r].cur_period.period_start
              /\ i.period_end = run[r].cur_period.period_end
        \/ run'[r].log.error_trace = "PDF render failed"

\* C1: a generate_invoice call with allow_duplicate=false whose resolved
\* period is that of an existing non-cancelled invoice of the same customer
\* is rejected with an error and adds no invoice row; with allow_duplicate=true
\* the same call passes the guard and, in sequential runs for one customer,
\* its insert adds a second row unless the renderer fails.
C1_DuplicateGuard ==
    [][\A r \in Runs : C1_GuardStep(r) /\ C1_PersistStep(r)]_vars

\* a quick or manual run rejected by the guard while the customer has a
\* non-cancelled invoice for the period
C1_Witness ==
    \E r \in Runs :
        /\ run[r].pc = "raised"
        /\ ~run[r].allow_duplicate
        /\ run[r].log.error_trace = "Invoice already exists for this period"
        /\ run[r].generated = {}
        /\ \E i \in invoices :
              /\ i.customer_id = Head(run[r].todo)
              /\ i.period_start = run[r].cur_period.period_start
              /\ i.period_end = run[r].cur_period.period_end
              /\ i.status # "cancelled"

\* C2: the invoice rows of one customer and one invoice date carry different
\* numbers, each number is PREFIX-YYYYMMDD-NNN with NNN one more than the
\* number of that customer's rows of that date created before it, so the
\* sequence strictly increases in creation order; this holds in every
\* interleaving of the runs.
C2_NumbersUniqueIncreasing ==
    \A i \in AllRows :
        /\ i.invoice_number =
              generate_invoice_number(customers[i.customer_id].contract.invoice_prefix,
                                      i.invoice_date, i.sequence)
        /\ i.sequence =
              1 + Cardinality({j \in AllRows : /\ j.customer_id = i.customer_id
                                               /\ j.invoice_date = i.invoice_date
                                               /\ j.id < i.id})
        /\ \A j \in AllRows :
              (/\ j.customer_id = i.customer_id
               /\ j.invoice_date = i.invoice_date
               /\ j.id < i.id) =>
                  /\ j.invoice_number # i.invoice_number
                  /\ j.sequence < i.sequence

\* two runs read the same sequence for one customer and date, one has
\* committed its row and the other's insert has failed on the constraint
C2_Witness ==
    \E r \in Runs :
        /\ run[r].pc = "raised"
        /\ run[r].log.error_trace = "IntegrityError"
        /\ \E i \in invoices :
              /\ i.customer_id = Head(run[r].todo)
              /\ i.invoice_date = run[r].run_date
              /\ i.sequence = run[r].sequence
              /\ i.invoice_number = "ACME-20260301-001"

\* C3 as claimed: of the invoices created with allow_duplicate=false (every
\* mode but the wizard), at most one that is not cancelled exists for a
\* customer and period, also when the runs interleave.
C3_OneInvoicePerPeriod ==
    \A i, j \in invoices :
        (/\ i.id # j.id
         /\ SamePeriod(i, j)
         /\ i.generation_mode # "wizard"
         /\ j.generation_mode # "wizard"
         /\ i.status # "cancelled") =>
            j.status = "cancelled"

\* the customers whose schedule is disabled
DisabledCustomers == {c \in Customers : ~customers[c].schedule.is_enabled}

\* C8: should_invoice_today is false on every run date and for every
\* frequency when the schedule is disabled, and no invoice row of a scheduled
\* batch with ignore_schedule=false belongs to a customer whose schedule is
\* disabled.
C8_DisabledNeverScheduled ==
    /\ \A c \in DisabledCustomers, d \in RunDates, f \in Frequencies :
          ~should_invoice_today(d, f, customers[c].schedule)
    /\ \A i \in AllRows :
          i.generation_mode = "scheduled" => i.customer_id \notin DisabledCustomers

\* a scheduled batch has ended with an invoice for the first customer and
\* none for the second, whose schedule is disabled and whose billing day is
\* the run date
C8_Witness ==
    \E r \in Runs :
        /\ run[r].pc = "returned"
        /\ run[r].mode = "scheduled"
        /\ run[r].log.customers_loaded = 2
        /\ run[r].log.schedule_matches = 1
        /\ customers["c2"].schedule.present
        /\ "c2" \in DisabledCustomers
        /\ DayOf(run[r].run_date) = customers["c2"].schedule.billing_day
        /\ \E i \in invoices : i.generation_mode = "scheduled" /\ i.customer_id = "c1"

\* the email failure entries of a run's failures list
EmailFailures(rec) == {k \in 1 .. Len(rec.failures) : IsEmailFailure(rec.failures[k])}

\* the run has ended: the caller has the summary or the exception
Ended(rec) == rec.pc \in {"returned", "raised"}

\* C9 as claimed: when a run has ended, every customer whose email send
\* failed has exactly one email failure entry and an invoice of the run that
\* is committed with status generated, and the counters have pdfs_generated
\* counting the invoices of the run and emails_sent counting the sent ones
\* only.
C9_EmailFailureKeepsInvoice ==
    \A r \in Runs :
        Ended(run[r]) =>
            \A k \in EmailFailures(run[r]) :
                LET c == run[r].failures[k].customer_id IN
                /\ \A l \in EmailFailures(run[r]) :
                      run[r].failures[l].customer_id = c => l = k
                /\ \E i \in invoices :
                      /\ i.id \in run[r].generated
                      /\ i.customer_id = c
                      /\ i.status = "generated"
                /\ run[r].log.pdfs_generated = Cardinality(run[r].generated)
                /\ run[r].log.emails_sent =
                      Cardinality({i \in invoices : /\ i.id \in run[r].generated
                                                    /\ i.status = "sent"})

\* C10 as claimed: in every mode the failures counter of a run's
\* ExecutionLog counts each email send failure of the run.
C10_EmailFailureCounted ==
    \A r \in Runs : run[r].log.failures >= Cardinality(EmailFailures(run[r]))

\* C11 as claimed: when a run has ended, on every exit path, its ExecutionLog
\* has completed_at set and is committed as the run left it, and error_trace
\* is set exactly when the run ended with a run-level exception.
C11_LogFinalized ==
    \A r \in Runs :
        Ended(run[r]) =>
            /\ run[r].log.completed_at
            /\ run[r].stored_log = run[r].log
            /\ (run[r].log.error_trace # "") <=> (run[r].pc = "raised")

\* the customers of the batch's loaded list that pass its gates
Attempted(rec) == {c \in Customers : customers[c].is_active /\ ~SkipsCustomer(c, rec)}

\* the entries of the run's failures list that name the customer
FailuresOf(rec, c) == {k \in 1 .. Len(rec.failures) : rec.failures[k].customer_id = c}

\* C12 as claimed: a batch run never ends with a run-level exception and its
\* error_trace stays empty; when it has ended, every loaded customer that
\* passes the schedule gate was attempted (counted in schedule_matches, and
\* left with an invoice of the run or a failure entry), and every failure
\* entry names the customer it happened for, at most one generation failure
\* and one email failure each.
C12_BatchIsolatesFailures ==
    \A r \in Runs :
        IsBatch(run[r]) =>
            /\ run[r].pc # "raised"
            /\ run[r].log.error_trace = ""
            /\ Ended(run[r]) =>
                  /\ run[r].log.schedule_matches = Cardinality(Attempted(run[r]))
                  /\ \A c \in Attempted(run[r]) :
                        \/ \E i \in invoices : i.id \in run[r].generated /\ i.customer_id = c
                        \/ \E k \in FailuresOf(run[r], c) : ~IsEmailFailure(run[r].failures[k])
                  /\ \A k \in 1 .. Len(run[r].failures) :
                        LET f == run[r].failures[k] IN
                        /\ f.customer_id \in Attempted(run[r])
                        /\ \A l \in FailuresOf(run[r], f.customer_id) :
                              IsEmailFailure(run[r].failures[l]) = IsEmailFailure(f) => l = k

\* the batch's condition for emailing the customer it is working on
EmailCondition(rec, send_email) ==
    /\ send_email
    /\ \/ rec.ignore_schedule
       \/ customers[Head(rec.todo)].schedule.auto_send_email

\* the batch's step that flushes an invoice row and decides on the email
C13_PersistStep(r) ==
    (/\ IsBatch(run[r])
     /\ run[r].pc = "persist"
     /\ pending'[r] \ pending[r] # {}) =>
        (run'[r].pc = "email" /\ run'[r].todo = run[r].todo)
            <=> EmailCondition(run[r], run'[r].send_email)

C14_NeverEmailsNotOptedIn ==
    \A r \in Runs :
        (IsBatch(run[r]) /\ run[r].pc = "email") =>
            customers[Head(run[r].todo)].schedule.auto_send_email

\* the customers a batch with ignore_schedule=false is to invoice: loaded,
\* with a contract and a schedule, and due on the run date
DueCustomers(run_date) ==
    {c \in Customers :
        /\ customers[c].is_active
        /\ customers[c].contract.present
        /\ customers[c].schedule.present
        /\ should_invoice_today(run_date, customers[c].contract.frequency,
                                customers[c].schedule)}

\* the counters and lists of the scheduled batches that have ended
C15_Counts ==
    \A r \in Runs :
        (run[r].mode = "scheduled" /\ Ended(run[r])) =>
            /\ run[r].log.schedule_matches = Cardinality(DueCustomers(run[r].run_date))
            /\ run[r].log.failures <= Cardinality(DueCustomers(run[r].run_date))
            /\ \A c \in Customers \ DueCustomers(run[r].run_date) :
                  /\ FailuresOf(run[r], c) = {}
                  /\ ~\E i \in AllRows : i.id \in run[r].generated /\ i.customer_id = c

\* a step of a scheduled batch leaves the cursor of the other customers alone
C15_CursorStep(r) ==
    (run[r].mode = "scheduled" /\ run'[r] # run[r]) =>
        \A c \in Customers \ DueCustomers(run[r].run_date) : cursor'[c] = cursor[c]

\* C15 as claimed: a scheduled batch with ignore_schedule=false ends with
\* schedule_matches equal to the number of loaded customers that have a
\* contract and a schedule and are due on run_date; every other loaded
\* customer gets no invoice, no failure entry and no count in failures, and
\* its last_run_date and next_run_date are not written.
C15_ScheduleMatches ==
    [][C15_Counts' /\ \A r \in Runs : C15_CursorStep(r)]_vars

---------------------------------------------------------------------------
(* Pricing: PDFService.generate_invoice_pdf computes the amounts with       *)
(* Decimal arithmetic and generate_invoice stores them in NUMERIC columns.  *)
(* A Decimal is modelled by an integer count of a fixed unit: hours in      *)
(* 1/100 hour, rates, fees and stored amounts in cents, tax rates in        *)
(* 1/10000, computed amounts in 1/10000 dollar, so that the products are    *)
(* exact as Decimal's are.                                                  *)

\* hours in quarter hours up to MaxQuarterHours quarters, in 1/100 hour
MaxQuarterHours == 8
PriceHours == {25 * k : k \in 0 .. MaxQuarterHours}

\* rates per hour and extra fees in cents, tax rates in 1/10000
PriceRates == {0, 10, 100, 333, 500}
PriceFees == {0, 1, 250}
PriceTaxRates == {0, 500, 1300, 1325, 10000}

\* what quantize keeps: 1/10000 dollar per cent, and per cent of a product
\* of an amount and a tax rate
UnitsPerCent == 100
TaxUnitsPerCent == 1000000

\* Decimal.quantize(MONEY_QUANT, rounding=ROUND_HALF_UP) of a non-negative
\* amount given in units of which per_cent make a cent: the cents
QuantizeHalfUp(amount, per_cent) == (amount + per_cent \div 2) \div per_cent

\* the amounts of generate_invoice_pdf in 1/10000 dollar
Price(hours, rate, fees, tax_rate) ==
    LET labor_subtotal == hours * rate
        subtotal == labor_subtotal + UnitsPerCent * fees
        hst_amount == UnitsPerCent * QuantizeHalfUp(subtotal * tax_rate, TaxUnitsPerCent)
    IN  [labor_subtotal |-> labor_subtotal, subtotal |-> subtotal,
         hst_amount |-> hst_amount, total |-> subtotal + hst_amount]

\* a value written to a NUMERIC(12, 2) column: the database rounds it to
\* the column's scale, half away from zero; the cents
NumericScale2(amount) == QuantizeHalfUp(amount, UnitsPerCent)

\* the financial columns of the Invoice row, in cents
StoredAmounts(priced) ==
    [labor_subtotal |-> NumericScale2(priced.labor_subtotal),
     subtotal |-> NumericScale2(priced.subtotal),
     hst_amount |-> NumericScale2(priced.hst_amount),
     total |-> NumericScale2(priced.total)]

PriceInit ==
    /\ \E hours \in PriceHours, rate \in PriceRates, fees \in PriceFees,
          tax_rate \in PriceTaxRates :
            call_args = [hours |-> hours, rate |-> rate, fees |-> fees,
                         tax_rate |-> tax_rate]
    /\ call_result = NoCall
    /\ customers \in {c \in CustomerTables : c.c2.contract.frequency = "weekly"}
    /\ invoices = {}
    /\ pending = [r \in Runs |-> {}]
    /\ run = [r \in Runs |-> IdleRun]
    /\ cursor = [c \in Customers |-> NoCursor]
    /\ next_id = 1
    /\ runs_started = 0
    /\ status_updates = 0

\* generate_invoice_pdf returns the amounts
CallGenerateInvoicePdf ==
    /\ call_result = NoCall
    /\ call_result' =
         [op |-> "generate_invoice_pdf",
          priced |-> Price(call_args.hours, call_args.rate, call_args.fees,
                           call_args.tax_rate)]
    /\ UNCHANGED <<call_args, engine_vars>>

\* generate_invoice builds the Invoice from the amounts and flushes it
PersistPriced ==
    /\ call_result.op = "generate_invoice_pdf"
    /\ call_result' = [op |-> "persisted", priced |-> call_result.priced,
                       stored |-> StoredAmounts(call_result.priced)]
    /\ UNCHANGED <<call_args, engine_vars>>

PriceNext ==
    \/ CallGenerateInvoicePdf
    \/ PersistPriced

SpecPrice == PriceInit /\ [][PriceNext]_vars

---------------------------------------------------------------------------
(* Claims about pricing, checked under SpecPrice *)

\* C16 as claimed: the pricing step computes labor_subtotal = hours * rate,
\* subtotal = labor_subtotal + fees, tax_amount = subtotal * tax_rate rounded
\* half-up to the cent and total = subtotal + tax_amount, and the persisted
\* invoice stores exactly these values.
C16_PricedAndStored ==
    call_result.op = "persisted" =>
        LET p == call_result.priced
            s == call_result.stored
        IN  /\ p.labor_subtotal = call_args.hours * call_args.rate
            /\ p.subtotal = p.labor_subtotal + UnitsPerCent * call_args.fees
            /\ p.hst_amount =
                 UnitsPerCent * QuantizeHalfUp(p.subtotal * call_args.tax_rate,
                                               TaxUnitsPerCent)
            /\ p.total = p.subtotal + p.hst_amount
            /\ UnitsPerCent * s.labor_subtotal = p.labor_subtotal
            /\ UnitsPerCent * s.subtotal = p.subtotal
            /\ UnitsPerCent * s.hst_amount = p.hst_amount
            /\ UnitsPerCent * s.total = p.total

\* C17 as claimed: the subtotal and the total the pricing step returns are
\* whole numbers of cents.
C17_WholeCents ==
    call_result.op = "generate_invoice_pdf" =>
        /\ call_result.priced.subtotal % UnitsPerCent = 0
        /\ call_result.priced.total % UnitsPerCent = 0

\* the inclusive date ranges of two rows share a day
Overlap(i, j) == i.period_start <= j.period_end /\ j.period_start <= i.period_end

\* C18 as claimed: of the invoices created with allow_duplicate unset (every
\* mode but the wizard), any two of one customer that are not cancelled
\* cover disjoint inclusive date ranges [period_start, period_end].
C18_DisjointPeriods ==
    \A i, j \in invoices :
        (/\ i.id # j.id
         /\ i.customer_id = j.customer_id
         /\ i.generation_mode # "wizard"
         /\ j.generation_mode # "wizard"
         /\ i.status # "cancelled"
         /\ j.status # "cancelled") =>
            ~Overlap(i, j)

\* the invoice number the run is about to insert
NumberToInsert(r) ==
    generate_invoice_number(customers[Head(run[r].todo)].contract.invoice_prefix,
                            run[r].run_date, run[r].sequence)

\* C19 as claimed: when the runs follow one another (no other run is in
\* progress and the sequence the run read is still the count it would
\* read), an attempt that has passed the Duplicate Guard is about to insert
\* a number that no persisted invoice of any customer carries, so the
\* insert does not fail on the invoice_number uniqueness constraint.
C19_SequentialNumberFree ==
    \A r \in Runs :
        (/\ run[r].pc = "persist"
         /\ \A o \in Runs \ {r} : run[o].pc = "idle" /\ pending[o] = {}
         /\ run[r].sequence =
               get_next_invoice_sequence(r, Head(run[r].todo), run[r].run_date)) =>
            ~UniqueNumberViolated(r, NumberToInsert(r))

\* the place of a status on the path generated -> sent -> paid
StatusRank(status) ==
    CASE status = "generated" -> 1
      [] status = "sent" -> 2
      [] status = "paid" -> 3
      [] OTHER -> 0

\* a status change the lifecycle allows: forward on the path, or to cancelled
ForwardOrCancelled(old, new) ==
    \/ new = old
    \/ new = "cancelled"
    \/ old # "cancelled" /\ new # "cancelled" /\ StatusRank(old) < StatusRank(new)

\* C20 as claimed: in every step (of a generation run, a resend-email or a
\* status update) every committed invoice stays, keeps all its fields but
\* the status, and its status stays, moves forward along generated -> sent
\* -> paid or becomes cancelled; never from sent back to generated, nor from
\* paid or cancelled back to generated or sent.
C20_Step ==
    \A i \in invoices :
        \E j \in invoices' :
            /\ j.id = i.id
            /\ j = [i EXCEPT !.status = j.status]
            /\ ForwardOrCancelled(i.status, j.status)

C20_StatusForwardOnly == [][C20_Step]_vars

---------------------------------------------------------------------------
(* Further claims about the schedule calculator, checked under SpecSched *)

\* C21 as claimed: for every frequency and run date the period ends on the
\* day before run_date.
C21_EndsDayBefore_AnyFrequency ==
    call_result.op = "compute_billing_period" =>
        call_result.period.period_end = call_args.date - 1

\* C21 amended: a weekly or biweekly period ends on the day before run_date;
\* a monthly period ends on the last day of the month before run_date's
\* month, which is the day before run_date exactly when run_date is the
\* first of its month.
C21_EndsDayBefore ==
    call_result.op = "compute_billing_period" =>
        LET period_end == call_result.period.period_end
            run_date == call_args.date
        IN  IF call_args.frequency = "monthly"
            THEN /\ period_end < run_date
                 /\ DayOf(period_end + 1) = 1
                 /\ MonthOf(period_end + 1) = MonthOf(run_date)
                 /\ YearOf(period_end + 1) = YearOf(run_date)
                 /\ (period_end = run_date - 1) <=> (DayOf(run_date) = 1)
            ELSE period_end = run_date - 1

\* a monthly period computed on 2026-03-15 ends on 2026-02-28
C21_Witness ==
    /\ call_result.op = "compute_billing_period"
    /\ call_args.frequency = "monthly"
    /\ call_args.date = MkDate(2026, 3, 15)
    /\ call_result.period.period_end = MkDate(2026, 2, 28)

---------------------------------------------------------------------------
(* Batch runs started from stores whose schedule cursors differ: the        *)
(* last_run_date and next_run_date columns hold what an earlier run or an   *)
(* edit left there                                                          *)

\* a cursor left behind that names a next run after the run dates studied
StaleCursor ==
    [last_run_date |-> MkDate(2026, 2, 1), next_run_date |-> MkDate(2026, 4, 1)]

CursorValues == {NoCursor, StaleCursor}

CursorInit ==
    /\ customers \in CustomerTables
    /\ invoices = {}
    /\ pending = [r \in Runs |-> {}]
    /\ run = [r \in Runs |-> IdleRun]
    /\ cursor \in [Customers -> CursorValues]
    /\ next_id = 1
    /\ runs_started = 0
    /\ status_updates = 0
    /\ call_args = NoCall
    /\ call_result = NoCall

CursorNext ==
    \/ \E r \in Runs : StartScheduled(r)
    \/ \E r \in Runs : CheckDuplicate(r)
    \/ \E r \in Runs : GetSequence(r)
    \/ \E r \in Runs : RenderAndPersist(r)
    \/ \E r \in Runs : SendEmail(r)
    \/ \E r \in Runs : FinishRun(r)
    \/ \E r \in Runs : Return(r)

SpecCursor == CursorInit /\ [][CursorNext]_vars

\* the customers a batch with this request works on, as the contract, the
\* schedule and the run date decide
Selected(rec) ==
    {c \in Customers :
        /\ customers[c].is_active
        /\ customers[c].contract.present
        /\ customers[c].schedule.present
        /\ \/ rec.ignore_schedule
           \/ should_invoice_today(rec.run_date, customers[c].contract.frequency,
                                   customers[c].schedule)}

\* the place of a customer in the batch's query result
Position(c) == CHOOSE k \in 1 .. Len(CustomerOrder) : CustomerOrder[k] = c

\* the customers of Selected the batch has reached
Reached(rec) ==
    {c \in Selected(rec) : rec.todo = <<>> \/ Position(c) <= Position(Head(rec.todo))}

\* C22: whatever last_run_date and next_run_date the store held when a batch
\* started, the batch works on exactly the customers that the request, the
\* contracts and the schedules select: it counts them in schedule_matches in
\* query order, its invoices and its failure entries are theirs, each invoice
\* carries the run date and the period computed from it, and a batch that
\* returns has left each of them with an invoice or a generation failure. So
\* two stores that differ only in the cursors give the same selection,
\* invoices, counters and failures.
C22_CursorNotRead ==
    \A r \in Runs :
        (IsBatch(run[r]) /\ run[r].pc # "idle") =>
            LET rec == run[r] IN
            /\ rec.todo # <<>> => Head(rec.todo) \in Selected(rec)
            /\ rec.log.schedule_matches = Cardinality(Reached(rec))
            /\ \A i \in AllRows :
                  i.id \in rec.generated =>
                      /\ i.customer_id \in Selected(rec)
                      /\ i.invoice_date = rec.run_date
                      /\ [period_start |-> i.period_start, period_end |-> i.period_end]
                            = compute_billing_period(rec.run_date,
                                  customers[i.customer_id].contract.frequency)
            /\ \A k \in 1 .. Len(rec.failures) :
                  rec.failures[k].customer_id \in Selected(rec)
            /\ rec.pc = "returned" =>
                  \A c \in Selected(rec) :
                      \/ \E i \in invoices : i.id \in rec.generated /\ i.customer_id = c
                      \/ \E k \in FailuresOf(rec, c) : ~IsEmailFailure(rec.failures[k])

\* a scheduled batch has invoiced both customers of a store whose cursor for
\* c1 names a next run a month later, and has not committed yet
C22_Witness ==
    \E r \in Runs :
        /\ run[r].mode = "scheduled"
        /\ run[r].pc = "finish"
        /\ run[r].log.schedule_matches = 2
        /\ run[r].log.pdfs_generated = 2
        /\ cursor["c1"] = StaleCursor
        /\ cursor["c2"] = NoCursor

---------------------------------------------------------------------------
(* Further claims about the runs, checked under Spec *)

\* the cursor run_scheduled writes for a customer it has invoiced
AdvancedCursor(rec, c) ==
    [last_run_date |-> rec.run_date,
     next_run_date |-> compute_next_invoice_date(rec.run_date + 1,
                                                 customers[c].contract.frequency,
                                                 customers[c].schedule)]

\* the customers for which the batch has a committed invoice
InvoicedBy(rows, rec) == {i.customer_id : i \in {j \in rows : j.id \in rec.generated}}

\* the customers for which generate_invoice failed in the batch
GenerationFailedIn(rec) ==
    {c \in Customers : \E k \in FailuresOf(rec, c) : ~IsEmailFailure(rec.failures[k])}

\* a step of the batch leaves the cursor of a customer whose generation
\* failed in it as it was
C23_FailedStep(r) ==
    (IsBatch(run'[r]) /\ run'[r] # run[r]) =>
        \A c \in GenerationFailedIn(run'[r]) : cursor'[c] = cursor[c]

\* when a batch ends, every customer it persisted an invoice for has the
\* advanced cursor, email failure or not
C23_Ended(r) ==
    (IsBatch(run'[r]) /\ ~Ended(run[r]) /\ Ended(run'[r])) =>
        \A c \in InvoicedBy(invoices', run'[r]) :
            /\ cursor'[c] = AdvancedCursor(run'[r], c)
            /\ cursor'[c].next_run_date > run'[r].run_date

\* C23 as claimed: at the end of a batch run every customer for which the
\* run persisted an invoice has last_run_date = run_date and next_run_date =
\* compute_next_invoice_date(run_date + 1 day) > run_date, also when the
\* email for the invoice failed; the cursor of a customer whose generation
\* failed is not written.
C23_CursorAdvanced ==
    [][\A r \in Runs : C23_Ended(r) /\ C23_FailedStep(r)]_vars

---------------------------------------------------------------------------
(* The runs on customers whose contract is missing or switched off *)

ContractInit ==
    /\ customers \in ContractTables
    /\ invoices = {}
    /\ pending = [r \in Runs |-> {}]
    /\ run = [r \in Runs |-> IdleRun]
    /\ cursor = [c \in Customers |-> NoCursor]
    /\ next_id = 1
    /\ runs_started = 0
    /\ status_updates = 0
    /\ call_args = NoCall
    /\ call_result = NoCall

SpecContract == ContractInit /\ [][Next]_vars

\* the customer has a contract and it is active
HasActiveContract(c) == customers[c].contract.present /\ customers[c].contract.is_active

\* C24 as claimed: for a customer without a contract, or whose contract has
\* is_active = false, no run gets to the sequence query, the rendering or
\* the insert, and no invoice row of the customer exists.
C24_NeedsActiveContract ==
    /\ \A r \in Runs :
          run[r].pc \in {"sequence", "persist", "email"} =>
              HasActiveContract(Head(run[r].todo))
    /\ \A i \in AllRows : HasActiveContract(i.customer_id)

---------------------------------------------------------------------------
(* Claims about failed renders, cancelled invoices and repeated batches,    *)
(* checked under Spec                                                       *)

\* the sequence number a count over these rows gives the customer on the date
SequenceIn(rows, c, d) ==
    1 + Cardinality({i \in rows : i.customer_id = c /\ i.invoice_date = d})

\* the step of run r is a failed render: the run was about to render, and it
\* has recorded the render failure
RenderFailed(r) ==
    /\ run[r].pc = "persist"
    /\ IF IsBatch(run[r])
       THEN /\ Len(run'[r].failures) = Len(run[r].failures) + 1
            /\ run'[r].failures[Len(run'[r].failures)] =
                  Failure(Head(run[r].todo), "PDF render failed")
       ELSE run'[r].log.error_trace = "PDF render failed"

\* C25: a step in which the PDF rendering fails adds no invoice row, and the
\* count that numbers the customer's invoices of the date is what it was; if
\* the sequence the failed attempt computed was that count, the next attempt
\* computes the same sequence.
C25_RenderFailStep(r) ==
    RenderFailed(r) =>
        LET c == Head(run[r].todo)
            d == run[r].run_date
        IN  /\ invoices' \cup pending'[r] = invoices \cup pending[r]
            /\ \A o \in Runs : pending'[o] = pending[o]
            /\ SequenceIn(invoices \cup pending[r], c, d) =
                  get_next_invoice_sequence(r, c, d)
            /\ SequenceIn(invoices' \cup pending'[r], c, d) =
                  SequenceIn(invoices \cup pending[r], c, d)
            /\ run[r].sequence = get_next_invoice_sequence(r, c, d) =>
                  SequenceIn(invoices' \cup pending'[r], c, d) = run[r].sequence

C25_RenderFailureLeavesNothing == [][\A r \in Runs : C25_RenderFailStep(r)]_vars

\* a quick run for c1 has failed at the render, and the following run has
\* inserted the number with sequence 1 for the same customer and date
C25_Witness ==
    \E r, o \in Runs :
        /\ run[r].pc = "raised"
        /\ run[r].log.error_trace = "PDF render failed"
        /\ run[r].sequence = 1
        /\ \E i \in AllRows :
              /\ i.id \in run[o].generated
              /\ i.customer_id = Head(run[r].todo)
              /\ i.invoice_date = run[r].run_date
              /\ i.sequence = 1

\* the rows run r sees for the customer it works on and the period
RowsForPeriod(r, period) ==
    {i \in invoices \cup pending[r] :
        /\ i.customer_id = Head(run[r].todo)
        /\ i.period_start = period.period_start
        /\ i.period_end = period.period_end}

\* all the customer's invoices for the period are cancelled, and there is one
OnlyCancelled(r, period) ==
    /\ RowsForPeriod(r, period) # {}
    /\ \A i \in RowsForPeriod(r, period) : i.status = "cancelled"

\* the guard's step of a call without allow_duplicate for a period whose
\* invoices are all cancelled: the call goes on to the sequence
C26_GuardStep(r) ==
    (/\ run[r].pc = "check"
     /\ run'[r] # run[r]
     /\ customers[Head(run[r].todo)].contract.present
     /\ ~run[r].allow_duplicate
     /\ OnlyCancelled(r, ResolvedPeriod(run[r]))) =>
        /\ run'[r].pc = "sequence"
        /\ run'[r].todo = run[r].todo
        /\ run'[r].failures = run[r].failures

\* the insert of that call: in a series of sequential runs for one customer
\* it adds the row unless the renderer fails, and once the row is added the
\* guard's query returns that row alone
C26_PersistStep(r) ==
    (/\ run[r].pc = "persist"
     /\ run'[r] # run[r]
     /\ ~run[r].allow_duplicate
     /\ OnlyCancelled(r, run[r].cur_period)) =>
        /\ (/\ \A o \in Runs \ {r} : run[o].pc = "idle"
            /\ run[r].sequence =
                  get_next_invoice_sequence(r, Head(run[r].todo), run[r].run_date)
            /\ \A i \in AllRows : i.customer_id = Head(run[r].todo)) =>
               \/ pending'[r] \ pending[r] # {}
               \/ RenderFailed(r)
        /\ pending'[r] \ pending[r] # {} =>
               /\ Cardinality(pending'[r] \ pending[r]) = 1
               /\ {i \in invoices' \cup pending'[r] :
                      /\ i.customer_id = Head(run[r].todo)
                      /\ i.period_start = run[r].cur_period.period_start
                      /\ i.period_end = run[r].cur_period.period_end
                      /\ i.status # "cancelled"} = pending'[r] \ pending[r]

\* C26: when every invoice of the customer for the period is cancelled, a
\* generation attempt with allow_duplicate=false for the identical period
\* passes the Duplicate Guard and inserts a new invoice, and the guard's query
\* then returns the new invoice as its single row.
C26_CancelledDoesNotBlock ==
    [][\A r \in Runs : C26_GuardStep(r) /\ C26_PersistStep(r)]_vars

\* c1's invoice for February 2026 was cancelled and a later quick run has
\* committed a second invoice for the period, the only one the guard finds
C26_Witness ==
    \E r \in Runs :
        /\ run[r].mode = "quick"
        /\ run[r].pc = "returned"
        /\ \E i, j \in invoices :
              /\ i.status = "cancelled"
              /\ j.id \in run[r].generated
              /\ j.customer_id = i.customer_id
              /\ SamePeriod(i, j)
              /\ check_duplicate_invoice(r, j.customer_id,
                    [period_start |-> j.period_start, period_end |-> j.period_end]) = {j}

---------------------------------------------------------------------------
(* A batch and its re-run: the second batch is started with the first one's *)
(* run date and ignore_schedule after the first has ended, and both         *)
(* summaries are kept                                                       *)

\* the first batch
StartFirst ==
    /\ runs_started = 0
    /\ StartScheduled(1)

\* the second batch, once the first has ended
StartRerun ==
    /\ Ended(run[1])
    /\ StartScheduled(2)
    /\ run'[2].run_date = run[1].run_date
    /\ run'[2].ignore_schedule = run[1].ignore_schedule

RerunNext ==
    \/ StartFirst
    \/ StartRerun
    \/ \E r \in Runs : CheckDuplicate(r)
    \/ \E r \in Runs : GetSequence(r)
    \/ \E r \in Runs : RenderAndPersist(r)
    \/ \E r \in Runs : SendEmail(r)
    \/ \E r \in Runs : FinishRun(r)

SpecRerun == Init /\ [][RerunNext]_vars

\* both batches have ended, with the same send_email where both read it
RerunEnded ==
    /\ Ended(run[1])
    /\ Ended(run[2])
    /\ IsBatch(run[2])
    /\ (run[1].send_email_read /\ run[2].send_email_read) =>
           run[1].send_email = run[2].send_email

\* C27 as claimed: when the re-run has ended, no invoice of the re-run is
\* persisted, every customer the first run invoiced has a generation failure
\* entry in the re-run, and every cursor is what the first run's commit made
\* it: advanced for the customers the first run invoiced and finished, empty
\* for the others.
C27_RerunIdempotent ==
    RerunEnded =>
        /\ ~\E i \in invoices : i.id \in run[2].generated
        /\ \A c \in InvoicedBy(invoices, run[1]) : c \in GenerationFailedIn(run[2])
        /\ \A c \in Customers :
              cursor[c] \in {NoCursor, AdvancedCursor(run[1], c)}
        /\ \A c \in InvoicedBy(invoices, run[1]) :
              run[1].pc = "returned" => cursor[c] = AdvancedCursor(run[1], c)

\* C28: a batch run that has returned has pdfs_generated + failures =
\* schedule_matches, schedule_matches <= customers_loaded and emails_sent <=
\* pdfs_generated; in the single-customer modes the five counters are 0 or 1
\* throughout, and pdfs_generated = 1 only with customers_loaded =
\* schedule_matches = 1.
C28_CounterRelations ==
    \A r \in Runs :
        LET log == run[r].log IN
        /\ (IsBatch(run[r]) /\ run[r].pc = "returned") =>
              /\ log.pdfs_generated + log.failures = log.schedule_matches
              /\ log.schedule_matches <= log.customers_loaded
              /\ log.emails_sent <= log.pdfs_generated
        /\ run[r].mode \in {"quick", "wizard", "manual"} =>
              /\ {log.customers_loaded, log.schedule_matches, log.pdfs_generated,
                  log.emails_sent, log.failures} \subseteq {0, 1}
              /\ log.pdfs_generated = 1 =>
                    log.customers_loaded = 1 /\ log.schedule_matches = 1

\* a batch has returned after two matches: one invoice whose email failed and
\* one generation failure
C28_Witness ==
    \E r \in Runs :
        /\ IsBatch(run[r])
        /\ run[r].pc = "returned"
        /\ run[r].log.schedule_matches = 2
        /\ run[r].log.pdfs_generated = 1
        /\ run[r].log.failures = 1
        /\ Len(run[r].failures) = 2
        /\ EmailFailures(run[r]) # {}

---------------------------------------------------------------------------
(* Claims about consecutive due dates, checked under SpecSched *)

\* the date is a due date of the schedule
IsDue(d, frequency, schedule) == should_invoice_today(d, frequency, schedule)

\* the monthly schedule's due date in the month after d's, if that month has
\* the billing day
DueNextMonth(d, schedule) ==
    IF ReplaceDayRaises(FirstOfNextMonth(d), schedule.billing_day) THEN NoDate
    ELSE ReplaceDay(FirstOfNextMonth(d), schedule.billing_day)

\* C29: for a period computed on a due date d, the period computed on the
\* following due date starts the day after it ends: d + 7 for weekly and
\* d + 14 for biweekly are due dates too, and for monthly, when the month
\* after d's has the billing day, the period computed on that due date is
\* the calendar month after the period of d, which is d's own month.
C29_PeriodsTile ==
    (/\ call_result.op = "compute_billing_period"
     /\ IsDue(call_args.date, call_args.frequency, call_args.schedule)) =>
        LET d == call_args.date
            f == call_args.frequency
            s == call_args.schedule
            p == call_result.period
        IN  CASE f = "weekly" ->
                   /\ IsDue(d + 7, f, s)
                   /\ \A k \in 1 .. 6 : ~IsDue(d + k, f, s)
                   /\ compute_billing_period(d + 7, f).period_start = p.period_end + 1
              [] f = "biweekly" ->
                   /\ IsDue(d + 14, f, s)
                   /\ \A k \in 1 .. 13 : ~IsDue(d + k, f, s)
                   /\ compute_billing_period(d + 14, f).period_start = p.period_end + 1
              [] f = "monthly" ->
                   LET next == DueNextMonth(d, s) IN
                   next # NoDate =>
                       /\ IsDue(next, f, s)
                       /\ compute_billing_period(next, f).period_start = p.period_end + 1
                       /\ compute_billing_period(next, f).period_start = ReplaceDay(d, 1)
                       /\ compute_billing_period(next, f).period_end =
                             FirstOfNextMonth(d) - 1

\* the weekly period computed on Sunday 2026-03-01 for a Sunday schedule ends
\* 2026-02-28 and the period of 2026-03-08 starts 2026-03-01
C29_Witness ==
    /\ call_result.op = "compute_billing_period"
    /\ call_args.frequency = "weekly"
    /\ call_args.schedule.is_enabled
    /\ call_args.schedule.billing_weekday = 6
    /\ call_args.date = MkDate(2026, 3, 1)
    /\ call_result.period.period_end = MkDate(2026, 2, 28)
    /\ compute_billing_period(MkDate(2026, 3, 8), "weekly").period_start = MkDate(2026, 3, 1)

\* C30: for an enabled schedule that has due dates (a biweekly one anchored
\* on its billing weekday), compute_next_invoice_date returns a due date on
\* or after from_date and no date from from_date up to the day before it is
\* due, whether the 60-day search found it or the closed form decided.
C30_EarliestDueDate ==
    (/\ call_result.op = "compute_next_invoice_date"
     /\ HasDueDates(call_args.frequency, call_args.schedule)) =>
        /\ call_result.next >= call_args.date
        /\ IsDue(call_result.next, call_args.frequency, call_args.schedule)
        /\ \A d \in call_args.date .. call_result.next - 1 :
              ~IsDue(d, call_args.frequency, call_args.schedule)

\* billing_day 31 from 2026-06-01: the due date 2026-07-31 is the 61st day,
\* the search has missed it and the closed form has returned it
C30_Witness ==
    /\ call_result.op = "compute_next_invoice_date"
    /\ call_args.frequency = "monthly"
    /\ call_args.schedule.is_enabled
    /\ call_args.schedule.billing_day = 31
    /\ call_args.date = MkDate(2026, 6, 1)
    /\ ~call_result.scanned
    /\ call_result.next = MkDate(2026, 7, 31)
    /\ call_result.next - call_args.date >= ScanDays

=============================================================================
